---- MODULE Spec2Model ----
(***************************************************************************)
(* Model of the Hyperware skeleton app (skeleton-app/src/lib.rs): one      *)
(* AppState {counter: u32, messages: Vec<String>} per node, the handlers   *)
(* initialize, get_status, increment_counter, get_messages,                *)
(* handle_remote_message and send_to_node, the EveryMessage save policy    *)
(* and the blocking outbound request with its 30 second timeout.           *)
(*                                                                         *)
(* Text is a sequence of tokens: one-character strings, and the string     *)
(* literals of the source kept whole ("Counter incremented by ").          *)
(* A u32 is a pair of 16-bit limbs [hi, lo] (value hi * 65536 + lo), so    *)
(* that the full 32-bit width is kept.                                     *)
(***************************************************************************)
EXTENDS Integers, Sequences, FiniteSets, TLC

\* ------------------------------------------------------------------ bounds
MaxMsgs == 3
MaxInbox == 1
TickStep == 15

\* --------------------------------------------------------------- u32 (l.33)
Base == 65536

U32(h, l) == [hi |-> h, lo |-> l]
U32Zero == U32(0, 0)
U32One == U32(0, 1)

\* a + b with the carry out of bit 31 kept
AddWide(a, b) ==
    LET l == a.lo + b.lo
        h == a.hi + b.hi + (l \div Base)
    IN  [carry |-> h \div Base, hi |-> h % Base, lo |-> l % Base]

WrappingAdd(a, b) == LET s == AddWide(a, b) IN U32(s.hi, s.lo)
Overflows(a, b) == AddWide(a, b).carry # 0

\* --------------------------------------------------------- decimal text
DigitChars == <<"0", "1", "2", "3", "4", "5", "6", "7", "8", "9">>
IsDigit(c) == \E d \in 1..10 : DigitChars[d] = c
DigitVal(c) == (CHOOSE d \in 1..10 : DigitChars[d] = c) - 1
IsWs(c) == c = " "

RECURSIVE SkipWs(_)
SkipWs(s) == IF s # <<>> /\ IsWs(Head(s)) THEN SkipWs(Tail(s)) ELSE s

RECURSIVE ParseDigits(_, _)
\* acc * 10 + d over the digits of s; ok is FALSE once the value leaves u32
ParseDigits(s, acc) ==
    IF s = <<>> \/ ~IsDigit(Head(s)) THEN [ok |-> TRUE, val |-> acc, rest |-> s]
    ELSE LET l == acc.lo * 10 + DigitVal(Head(s))
             h == acc.hi * 10 + (l \div Base)
         IN  IF h >= Base THEN [ok |-> FALSE, val |-> U32Zero, rest |-> s]
             ELSE ParseDigits(Tail(s), U32(h, l % Base))

\* serde_json::from_str::<u32>: optional whitespace, a JSON number without
\* sign, fraction, exponent or leading zero, within u32, optional whitespace.
ParseU32(body) ==
    LET s == SkipWs(body)
    IN  IF s = <<>> \/ ~IsDigit(Head(s)) THEN [ok |-> FALSE, val |-> U32Zero]
        ELSE IF Head(s) = "0" /\ Len(s) > 1 /\ IsDigit(s[2])
             THEN [ok |-> FALSE, val |-> U32Zero]
        ELSE LET p == ParseDigits(s, U32Zero)
             IN  IF p.ok /\ SkipWs(p.rest) = <<>>
                 THEN [ok |-> TRUE, val |-> p.val]
                 ELSE [ok |-> FALSE, val |-> U32Zero]

RECURSIVE FormatDigits(_)
FormatDigits(v) ==
    IF v = U32Zero THEN <<>>
    ELSE LET t == (v.hi % 10) * Base + v.lo
         IN  Append(FormatDigits(U32(v.hi \div 10, t \div 10)), DigitChars[(t % 10) + 1])

\* Display for u32 (the "{}" of format!)
FormatU32(v) == IF v = U32Zero THEN <<"0">> ELSE FormatDigits(v)

\* ------------------------------------------------------------- JSON text
QUOTE == "\""
BACKSLASH == "\\"

RECURSIVE EscapeJson(_)
EscapeJson(s) ==
    IF s = <<>> THEN <<>>
    ELSE (IF Head(s) \in {QUOTE, BACKSLASH} THEN <<BACKSLASH, Head(s)>> ELSE <<Head(s)>>)
         \o EscapeJson(Tail(s))

JsonString(s) == <<QUOTE>> \o EscapeJson(s) \o <<QUOTE>>

RECURSIVE JoinJsonStrings(_)
JoinJsonStrings(v) ==
    IF v = <<>> THEN <<>>
    ELSE IF Len(v) = 1 THEN JsonString(v[1])
    ELSE JsonString(v[1]) \o <<",">> \o JoinJsonStrings(Tail(v))

RECURSIVE JoinQuoted(_)
JoinQuoted(v) ==
    IF v = <<>> THEN <<>>
    ELSE IF Len(v) = 1 THEN <<QUOTE>> \o v[1] \o <<QUOTE>>
    ELSE <<QUOTE>> \o v[1] \o <<QUOTE, ",">> \o JoinQuoted(Tail(v))

\* a serializer that quotes the strings and escapes nothing in them
ToJsonArrayUnescaped(v) == <<"[">> \o JoinQuoted(v) \o <<"]">>

\* serde_json::to_string(&Vec<String>)
ToJsonArray(v) == <<"[">> \o JoinJsonStrings(v) \o <<"]">>

RECURSIVE ParseStringBody(_, _)
\* after the opening quote: the characters up to the closing quote, unescaped
ParseStringBody(s, acc) ==
    IF s = <<>> THEN [ok |-> FALSE, val |-> <<>>, rest |-> <<>>]
    ELSE IF Head(s) = QUOTE THEN [ok |-> TRUE, val |-> acc, rest |-> Tail(s)]
    ELSE IF Head(s) = BACKSLASH
         THEN IF Len(s) >= 2 /\ s[2] \in {QUOTE, BACKSLASH}
              THEN ParseStringBody(Tail(Tail(s)), Append(acc, s[2]))
              ELSE [ok |-> FALSE, val |-> <<>>, rest |-> <<>>]
    ELSE ParseStringBody(Tail(s), Append(acc, Head(s)))

ParseJsonString(s0) ==
    LET s == SkipWs(s0)
    IN  IF s # <<>> /\ Head(s) = QUOTE THEN ParseStringBody(Tail(s), <<>>)
        ELSE [ok |-> FALSE, val |-> <<>>, rest |-> <<>>]

RECURSIVE ParseArrayItems(_, _)
\* after "[" or ",": a string, then "," or "]"
ParseArrayItems(s, acc) ==
    LET p == ParseJsonString(s)
        r == SkipWs(p.rest)
    IN  IF ~p.ok \/ r = <<>> THEN [ok |-> FALSE, val |-> <<>>]
        ELSE IF Head(r) = "]"
             THEN [ok |-> SkipWs(Tail(r)) = <<>>, val |-> Append(acc, p.val)]
        ELSE IF Head(r) = ","
             THEN ParseArrayItems(Tail(r), Append(acc, p.val))
        ELSE [ok |-> FALSE, val |-> <<>>]

\* serde_json::from_str::<Vec<String>>, the reader of get_messages' output
ParseJsonArray(s0) ==
    LET s == SkipWs(s0)
    IN  IF s = <<>> \/ Head(s) # "[" THEN [ok |-> FALSE, val |-> <<>>]
        ELSE LET r == SkipWs(Tail(s))
             IN  IF r # <<>> /\ Head(r) = "]"
                 THEN [ok |-> SkipWs(Tail(r)) = <<>>, val |-> <<>>]
                 ELSE ParseArrayItems(r, <<>>)

\* ------------------------------------------------------- JSON objects
\* a string or an unsigned number, the two kinds of value the clients send
ParseJsonValue(s0) ==
    LET s == SkipWs(s0)
    IN  IF s = <<>> THEN [ok |-> FALSE, kind |-> "none", str |-> <<>>, rest |-> <<>>]
        ELSE IF Head(s) = QUOTE
             THEN LET p == ParseStringBody(Tail(s), <<>>)
                  IN  [ok |-> p.ok, kind |-> "string", str |-> p.val, rest |-> p.rest]
        ELSE IF IsDigit(Head(s))
             THEN LET p == ParseDigits(s, U32Zero)
                  IN  [ok |-> p.ok, kind |-> "number", str |-> <<>>, rest |-> p.rest]
        ELSE [ok |-> FALSE, kind |-> "none", str |-> <<>>, rest |-> <<>>]

RECURSIVE ParseMembers(_, _)
\* after "{" or ",": "key" : value, then "," or "}"
ParseMembers(s, acc) ==
    LET k == ParseJsonString(s)
        c == SkipWs(k.rest)
    IN  IF ~k.ok \/ c = <<>> \/ Head(c) # ":" THEN [ok |-> FALSE, val |-> <<>>]
        ELSE LET v == ParseJsonValue(Tail(c))
                 r == SkipWs(v.rest)
                 m == [key |-> k.val, kind |-> v.kind, str |-> v.str]
             IN  IF ~v.ok \/ r = <<>> THEN [ok |-> FALSE, val |-> <<>>]
                 ELSE IF Head(r) = "}"
                      THEN [ok |-> SkipWs(Tail(r)) = <<>>, val |-> Append(acc, m)]
                 ELSE IF Head(r) = ","
                      THEN ParseMembers(Tail(r), Append(acc, m))
                 ELSE [ok |-> FALSE, val |-> <<>>]

ParseJsonObject(s0) ==
    LET s == SkipWs(s0)
    IN  IF s = <<>> \/ Head(s) # "{" THEN [ok |-> FALSE, val |-> <<>>]
        ELSE LET r == SkipWs(Tail(s))
             IN  IF r # <<>> /\ Head(r) = "}"
                 THEN [ok |-> SkipWs(Tail(r)) = <<>>, val |-> <<>>]
                 ELSE ParseMembers(r, <<>>)

\* ----------------------------------------------- SendRequest (l.144-151)
SendRequestErr(why) ==
    [ok |-> FALSE, target_node |-> <<>>, message |-> <<>>, error |-> why]
SendRequestOk(t, m) ==
    [ok |-> TRUE, target_node |-> t, message |-> m, error |-> "none"]

Members(ms, key) == { i \in 1..Len(ms) : ms[i].key = <<key>> }

\* #[derive(Deserialize)] struct SendRequest { target_node: String, message: String }
\* read from a JSON object: both fields once, each a string; other keys ignored.
\* A two-element array of strings is read positionally.
DeserializeSendRequest(ms) ==
    LET t == Members(ms, "target_node")
        m == Members(ms, "message")
    IN  IF Cardinality(t) > 1 \/ Cardinality(m) > 1 THEN SendRequestErr("duplicate field")
        ELSE IF \E i \in t \cup m : ms[i].kind # "string" THEN SendRequestErr("invalid type")
        ELSE IF t = {} \/ m = {} THEN SendRequestErr("missing field")
        ELSE SendRequestOk(ms[CHOOSE i \in t : TRUE].str, ms[CHOOSE i \in m : TRUE].str)

\* a reader that takes a missing member to be the empty string, the way
\* increment_counter takes a default
ParseSendRequestLenient(body) ==
    LET o == ParseJsonObject(body)
        t == IF o.ok THEN Members(o.val, "target_node") ELSE {}
        m == IF o.ok THEN Members(o.val, "message") ELSE {}
    IN  SendRequestOk(IF t = {} THEN <<"bob.os">> ELSE o.val[CHOOSE i \in t : TRUE].str,
                      IF m = {} THEN <<>> ELSE o.val[CHOOSE i \in m : TRUE].str)

ParseSendRequest(body) ==
    LET s == SkipWs(body)
    IN  IF s # <<>> /\ Head(s) = "["
        THEN LET a == ParseJsonArray(s)
             IN  IF a.ok /\ Len(a.val) = 2 THEN SendRequestOk(a.val[1], a.val[2])
                 ELSE SendRequestErr("invalid length")
        ELSE LET o == ParseJsonObject(s)
             IN  IF o.ok THEN DeserializeSendRequest(o.val) ELSE SendRequestErr("syntax")

\* json!({"HandleRemoteMessage": req.message}) as bytes (l.162-164, 170)
RequestWrapper(message) ==
    <<"{">> \o JsonString(<<"HandleRemoteMessage">>) \o <<":">> \o JsonString(message) \o <<"}">>

\* the receiving process reads the envelope back and calls the #[remote] handler
DispatchRemote(wire) ==
    LET o == ParseJsonObject(wire)
    IN  IF o.ok /\ Len(o.val) = 1 /\ o.val[1].key = <<"HandleRemoteMessage">>
           /\ o.val[1].kind = "string"
        THEN [ok |-> TRUE, message |-> o.val[1].str]
        ELSE [ok |-> FALSE, message |-> <<>>]

\* ------------------------------------------------------------ the nodes
\* two nodes run the app; GhostNode is an address nobody answers at
Nodes == {"alice.os", "bob.os"}
GhostNode == "ghost.os"
\* the nodes whose HTTP endpoint has a client; the others only serve their peers
HttpClients == {"alice.os"}
Timeout == 30

\* ----------------------------------------------------- the clients' inputs
U32MaxText == <<"4", "2", "9", "4", "9", "6", "7", "2", "9", "5">>
IncrementBodies ==
    { <<"5">>, U32MaxText,
      <<"a", "b", "c">>, <<>>, <<"-", "1">>,
      <<"4", "2", "9", "4", "9", "6", "7", "2", "9", "6">> }

RemoteTexts == { <<"h", "i", QUOTE, ",", BACKSLASH>> }

JsonMember(key, value) == JsonString(<<key>>) \o <<":">> \o value
JsonObject2(a, b) == <<"{">> \o a \o <<",">> \o b \o <<"}">>
SendBody(node, text) ==
    JsonObject2(JsonMember("target_node", JsonString(<<node>>)),
                JsonMember("message", JsonString(text)))

WellFormedSendBodies ==
    { SendBody(t, m) : t \in Nodes \cup {GhostNode}, m \in RemoteTexts }
MalformedSendBodies ==
    { <<"{">> \o JsonMember("target_node", JsonString(<<"bob.os">>)) \o <<"}">>,
      <<"{">> \o JsonMember("message", JsonString(<<"h", "i">>)) \o <<"}">>,
      <<"{", QUOTE, "target_node">> }
SendBodies == WellFormedSendBodies \cup MalformedSendBodies

\* ------------------------------------------------------------------ state
VARIABLES
    up,               \* up[n]: the process of node n is running
    counter,          \* AppState.counter of node n, a u32
    messages,         \* AppState.messages of node n
    persisted,        \* the last saved AppState of node n
    pc,               \* "idle", or "awaiting" inside send_and_await_response
    call,             \* the outbound call node n is blocked in
    inbox,            \* requests delivered to node n and not yet handled
    last,             \* the handler call that completed last, and its result
    overflow_checks,  \* the build: TRUE panics on u32 overflow, FALSE wraps
    since_init        \* per node, what was asked of it since its first start

vars == <<up, counter, messages, persisted, pc, call, inbox, last,
          overflow_checks, since_init>>

RECURSIVE EntriesIn(_)
\* log entries held by the nodes in S
EntriesIn(S) ==
    IF S = {} THEN 0
    ELSE LET n == CHOOSE x \in S : TRUE
         IN  Len(messages[n]) + EntriesIn(S \ {n})
\* room for one more entry within the bound of the model
Room == EntriesIn(Nodes) < MaxMsgs

AppState(c, m) == [counter |-> c, messages |-> m]
DefaultState == AppState(U32Zero, <<>>)
Current(n) == AppState(counter[n], messages[n])

NoCall ==
    [body |-> <<>>, target |-> "", message |-> <<>>, elapsed |-> 0,
     sent |-> 0, response |-> FALSE]

Ok(v) == [status |-> "Ok", value |-> v]
Err(v) == [status |-> "Err", value |-> v]
Panicked == [status |-> "panic", value |-> <<>>]

\* one completed handler call: where, which, its body, its result, the state
\* it ran on, and (send_to_node) the requests it issued and the time it waited
Completed(n, op, body, res, sent, elapsed) ==
    [node |-> n, op |-> op, body |-> body, result |-> res, pre |-> Current(n),
     sent |-> sent, elapsed |-> elapsed]

NoHistory == [fresh |-> FALSE, k |-> 0, carry |-> 0, total |-> U32Zero]

Init ==
    /\ up = [n \in Nodes |-> FALSE]
    /\ counter = [n \in Nodes |-> U32Zero]
    /\ messages = [n \in Nodes |-> <<>>]
    /\ persisted = [n \in Nodes |-> DefaultState]
    /\ pc = [n \in Nodes |-> "idle"]
    /\ call = [n \in Nodes |-> NoCall]
    /\ inbox = [n \in Nodes |-> <<>>]
    /\ last = [node |-> "", op |-> "none", body |-> <<>>, result |-> Ok(<<>>),
               pre |-> DefaultState, sent |-> 0, elapsed |-> 0]
    /\ overflow_checks \in BOOLEAN
    /\ since_init = [n \in Nodes |-> NoHistory]

\* save_config = SaveOptions::EveryMessage (l.61): the state after the handler
\* replaces the snapshot
Save(n, st) == persisted' = [persisted EXCEPT ![n] = st]

\* ------------------------------------------------------------- initialize
InitEntry == <<"App initialized!">>

\* an initialize that starts the log over
InitializeFresh(st) == AppState(U32Zero, <<InitEntry>>)

\* l.80-81 on the restored state
Initialize(st) == AppState(U32Zero, Append(st.messages, InitEntry))

\* process start: the saved state (or the default) is loaded, then #[init] runs
Startup(n) ==
    /\ ~up[n]
    /\ Len(persisted[n].messages) + EntriesIn(Nodes \ {n}) < MaxMsgs
    /\ LET st == Initialize(persisted[n])
       IN  /\ counter' = [counter EXCEPT ![n] = st.counter]
           /\ messages' = [messages EXCEPT ![n] = st.messages]
           /\ last' = [node |-> n, op |-> "initialize", body |-> <<>>,
                       result |-> Ok(<<>>), pre |-> persisted[n],
                       sent |-> 0, elapsed |-> 0]
           /\ since_init' = [since_init EXCEPT ![n] =
                  [fresh |-> persisted[n] = DefaultState, k |-> 0, carry |-> 0,
                   total |-> U32Zero]]
    /\ up' = [up EXCEPT ![n] = TRUE]
    /\ pc' = [pc EXCEPT ![n] = "idle"]
    /\ call' = [call EXCEPT ![n] = NoCall]
    /\ UNCHANGED <<persisted, inbox, overflow_checks>>

\* process teardown between two messages: the memory is lost, the snapshot stays
Teardown(n) ==
    /\ up[n] /\ pc[n] = "idle"
    /\ up' = [up EXCEPT ![n] = FALSE]
    /\ since_init' = [since_init EXCEPT ![n].fresh = FALSE]
    /\ UNCHANGED <<counter, messages, persisted, pc, call, inbox, last, overflow_checks>>

\* ------------------------------------------------------------- get_status
\* l.94-98: the JSON object, by member
StatusJson(n) ==
    [counter |-> counter[n], message_count |-> Len(messages[n]), node |-> n]

GetStatus(n) ==
    /\ up[n] /\ pc[n] = "idle"
    /\ last' = Completed(n, "get_status", <<>>, Ok(StatusJson(n)), 0, 0)
    /\ Save(n, Current(n))
    /\ UNCHANGED <<up, counter, messages, pc, call, inbox, overflow_checks, since_init>>

\* ----------------------------------------------------------- get_messages
\* l.123
MessagesJson(n) == ToJsonArray(messages[n])

GetMessages(n) ==
    /\ up[n] /\ pc[n] = "idle"
    /\ last' = Completed(n, "get_messages", <<>>, Ok(MessagesJson(n)), 0, 0)
    /\ Save(n, Current(n))
    /\ UNCHANGED <<up, counter, messages, pc, call, inbox, overflow_checks, since_init>>

\* ------------------------------------------------------ increment_counter
\* l.108-111
IncrementAmount(body) ==
    LET p == ParseU32(body) IN IF p.ok THEN p.val ELSE U32One

\* l.114
IncrementEntry(amount) == <<"Counter incremented by ">> \o FormatU32(amount)

\* l.113: += on u32 panics with overflow checks and wraps without them
IncrementCounter(n, body) ==
    /\ up[n] /\ pc[n] = "idle"
    /\ Room
    /\ LET amount == IncrementAmount(body)
           sum == AddWide(counter[n], amount)
           h == since_init[n]
           t == AddWide(h.total, amount)
       IN  IF Overflows(counter[n], amount) /\ overflow_checks
           THEN /\ up' = [up EXCEPT ![n] = FALSE]
                /\ last' = Completed(n, "increment_counter", body, Panicked, 0, 0)
                /\ since_init' = [since_init EXCEPT ![n].fresh = FALSE]
                /\ UNCHANGED <<counter, messages, persisted>>
           ELSE /\ counter' = [counter EXCEPT ![n] = WrappingAdd(counter[n], amount)]
                /\ messages' = [messages EXCEPT ![n] = Append(@, IncrementEntry(amount))]
                /\ last' = Completed(n, "increment_counter", body,
                                     Ok(WrappingAdd(counter[n], amount)), 0, 0)
                /\ Save(n, AppState(counter'[n], messages'[n]))
                /\ since_init' = [since_init EXCEPT ![n] =
                       [fresh |-> h.fresh, k |-> h.k + 1, carry |-> h.carry + t.carry,
                        total |-> U32(t.hi, t.lo)]]
                /\ UNCHANGED up
    /\ UNCHANGED <<pc, call, inbox, overflow_checks>>

\* -------------------------------------------------- handle_remote_message
\* an entry that marks the origin and drops the text
RemoteEntryNoText(message) == <<"Remote message: ">>

\* l.134
RemoteEntry(message) == <<"Remote message: ">> \o message
\* l.136
RemoteAck == <<"Message received">>

\* the oldest delivered request is dispatched to the #[remote] handler; its
\* response reaches the sender if the sender still waits for it
HandleRemoteMessage(n) ==
    /\ up[n] /\ pc[n] = "idle"
    /\ inbox[n] # <<>>
    /\ Room
    /\ LET req == Head(inbox[n])
           d == DispatchRemote(req.wire)
       IN  /\ d.ok
           /\ messages' = [messages EXCEPT ![n] = Append(@, RemoteEntry(d.message))]
           /\ last' = Completed(n, "handle_remote_message", d.message, Ok(RemoteAck), 0, 0)
           /\ Save(n, AppState(counter[n], messages'[n]))
           /\ call' = IF req.awaited
                      THEN [call EXCEPT ![req.source].response = TRUE]
                      ELSE call
    /\ inbox' = [inbox EXCEPT ![n] = Tail(@)]
    /\ since_init' = [since_init EXCEPT ![n].fresh = FALSE]
    /\ UNCHANGED <<up, counter, pc, overflow_checks>>

\* ----------------------------------------------------------- send_to_node
\* l.150-151
InvalidRequest(why) == <<"Invalid request: ", why>>

\* l.159: the node named by the request, if it is one of the running apps
TargetNode(text) == IF Len(text) = 1 THEN text[1] ELSE ""

\* l.142-172: parse, or return the error; build the envelope, send it once,
\* block for the response
SendToNode(n, body) ==
    /\ up[n] /\ pc[n] = "idle"
    /\ LET req == ParseSendRequest(body)
           t == TargetNode(req.target_node)
       IN  IF ~req.ok
           THEN /\ last' = Completed(n, "send_to_node", body,
                                     Err(InvalidRequest(req.error)), 0, 0)
                /\ Save(n, Current(n))
                /\ UNCHANGED <<pc, call, inbox>>
           ELSE /\ t \in Nodes => Len(inbox[t]) < MaxInbox
                /\ pc' = [pc EXCEPT ![n] = "awaiting"]
                /\ call' = [call EXCEPT ![n] =
                       [body |-> body, target |-> t, message |-> req.message,
                        elapsed |-> 0, sent |-> 1, response |-> FALSE]]
                /\ inbox' = IF t \in Nodes
                            THEN [inbox EXCEPT ![t] = Append(@,
                                     [source |-> n, wire |-> RequestWrapper(req.message),
                                      awaited |-> TRUE])]
                            ELSE inbox
                /\ UNCHANGED <<last, persisted>>
    /\ UNCHANGED <<up, counter, messages, overflow_checks, since_init>>

\* time passes for a blocked sender, up to the timeout of l.171-172
Tick(n) ==
    /\ up[n] /\ pc[n] = "awaiting"
    /\ ~call[n].response
    /\ call[n].elapsed < Timeout
    /\ call' = [call EXCEPT ![n].elapsed =
                   IF @ + TickStep > Timeout THEN Timeout ELSE @ + TickStep]
    /\ UNCHANGED <<up, counter, messages, persisted, pc, inbox, last,
                   overflow_checks, since_init>>

\* Request::send_and_await_response(30): Result<Result<Message, SendError>, BuildError>.
\* The outer Err is a request built without target or body, which l.168-170
\* set; a response, or the lack of one at the timeout, is the inner result.
AwaitResult(c) ==
    [outer |-> "Ok", inner |-> IF c.response THEN "Response" ELSE "Timeout"]

\* l.174-177
SendToNodeMatch(result) ==
    IF result.outer = "Ok" THEN Ok(<<"Message sent successfully">>)
    ELSE Err(<<"Failed to send message: ", result.inner>>)

Abandon(q, n) ==
    [i \in 1..Len(q) |-> IF q[i].source = n THEN [q[i] EXCEPT !.awaited = FALSE] ELSE q[i]]

\* the blocked call ends: with the response, or at the timeout without one
SendToNodeReturn(n) ==
    /\ up[n] /\ pc[n] = "awaiting"
    /\ call[n].response \/ call[n].elapsed = Timeout
    /\ last' = Completed(n, "send_to_node", call[n].body,
                         SendToNodeMatch(AwaitResult(call[n])),
                         call[n].sent, call[n].elapsed)
    /\ Save(n, Current(n))
    /\ pc' = [pc EXCEPT ![n] = "idle"]
    /\ call' = [call EXCEPT ![n] = NoCall]
    /\ inbox' = [t \in Nodes |-> Abandon(inbox[t], n)]
    /\ UNCHANGED <<up, counter, messages, overflow_checks, since_init>>

Next ==
    \/ \E n \in Nodes : Startup(n)
    \/ \E n \in Nodes : Teardown(n)
    \/ \E n \in HttpClients : GetStatus(n)
    \/ \E n \in HttpClients : GetMessages(n)
    \/ \E n \in HttpClients, body \in IncrementBodies : IncrementCounter(n, body)
    \/ \E n \in Nodes : HandleRemoteMessage(n)
    \/ \E n \in HttpClients, body \in SendBodies : SendToNode(n, body)
    \/ \E n \in Nodes : Tick(n)
    \/ \E n \in Nodes : SendToNodeReturn(n)

Spec == Init /\ [][Next]_vars

\* ------------------------------------------------------------- the claims
IsPrefix(a, b) == Len(a) <= Len(b) /\ SubSeq(b, 1, Len(a)) = a
Appended(before, after) ==
    Len(after) = Len(before) + 1 /\ SubSeq(after, 1, Len(before)) = before

\* a handler call completes in this step
Completes(op) == last' # last /\ last'.op = op

\* the text the client put in the "message" member of a well-formed body
SentText(body) == CHOOSE m \in RemoteTexts : \E t \in Nodes \cup {GhostNode} : body = SendBody(t, m)
SentTarget(body) == CHOOSE t \in Nodes \cup {GhostNode} : \E m \in RemoteTexts : body = SendBody(t, m)

\* C1: increment_counter with a body that is a u32 n leaves counter at its
\* previous value plus exactly n (also where the sum passes the u32 maximum),
\* appends exactly one entry and returns Ok with the new counter.
C1_IncrementAddsExactly ==
    (last.op = "increment_counter" /\ ParseU32(last.body).ok) =>
        /\ last.result.status = "Ok"
        /\ AddWide(last.pre.counter, ParseU32(last.body).val)
             = [carry |-> 0, hi |-> counter[last.node].hi, lo |-> counter[last.node].lo]
        /\ Appended(last.pre.messages, messages[last.node])
        /\ last.result.value = counter[last.node]

\* C2: on a node started from the empty state and asked only for increments
\* and reads since, get_status reports the total T of the k increments as
\* counter and k + 1 as message_count.
C2_StatusReportsTotal ==
    (last.op = "get_status" /\ since_init[last.node].fresh) =>
        /\ since_init[last.node].carry = 0
        /\ last.result.value.counter = since_init[last.node].total
        /\ last.result.value.message_count = since_init[last.node].k + 1

\* C3: a send_to_node call whose body lacks target_node or message, or is
\* not JSON, returns Err, changes neither counter nor messages, and hands no
\* request to the transport.
C3_BadSendBodyIsRejected ==
    [][ \A n \in Nodes :
          (Completes("send_to_node") /\ last'.node = n
              /\ last'.body \in MalformedSendBodies) =>
            /\ last'.result.status = "Err"
            /\ counter'[n] = counter[n] /\ messages'[n] = messages[n]
            /\ pc[n] = "idle" /\ pc'[n] = "idle"
            /\ call' = call /\ inbox' = inbox
            /\ last'.sent = 0 ]_vars

C3_Witness ==
    /\ last.op = "send_to_node" /\ last.body \in MalformedSendBodies
    /\ last.result.status = "Err"
    /\ counter[last.node] # U32Zero
    /\ Len(messages[last.node]) >= 2

\* C4: a well-formed send_to_node whose target never responds returns an
\* error result, not before the timeout has elapsed, after exactly one
\* outbound request.
C4_UnansweredSendFails ==
    (last.op = "send_to_node" /\ last.body \in WellFormedSendBodies
        /\ SentTarget(last.body) = GhostNode) =>
        /\ last.result.status = "Err"
        /\ last.elapsed = Timeout
        /\ last.sent = 1

\* C5: when send_to_node to a running peer returns the success
\* confirmation, the peer's log already holds the entry made from the
\* message sent.
C5_SuccessMeansDelivered ==
    (last.op = "send_to_node" /\ last.result.status = "Ok"
        /\ SentTarget(last.body) \in Nodes \ {last.node}
        /\ up[SentTarget(last.body)]) =>
        \E i \in 1..Len(messages[SentTarget(last.body)]) :
            messages[SentTarget(last.body)][i]
                = <<"Remote message: ">> \o SentText(last.body)

RECURSIVE LoggedTotal(_)
\* the wrapping sum of the amounts of the increments a log records
LoggedTotal(log) ==
    IF log = <<>> THEN U32Zero
    ELSE LET e == log[Len(log)]
             rest == LoggedTotal(SubSeq(log, 1, Len(log) - 1))
         IN  IF Head(e) = "Counter incremented by "
             THEN WrappingAdd(rest, ParseU32(Tail(e)).val)
             ELSE rest

\* C6: the state served to the handlers holds the counter effect of exactly
\* the increments its log records, also after a teardown and restart.
C6_CounterMatchesLog ==
    \A n \in Nodes :
        (up[n] /\ pc[n] = "idle") => counter[n] = LoggedTotal(messages[n])

\* C7: increment_counter with a body that is no u32 adds exactly 1, appends
\* exactly one entry and returns Ok.
C7_BadBodyAddsOne ==
    (last.op = "increment_counter"
        /\ last.body \in { <<"a", "b", "c">>, <<>>, <<"-", "1">>,
                           <<"4", "2", "9", "4", "9", "6", "7", "2", "9", "6">> }) =>
        /\ last.result.status = "Ok"
        /\ AddWide(last.pre.counter, U32One)
             = [carry |-> 0, hi |-> counter[last.node].hi, lo |-> counter[last.node].lo]
        /\ Appended(last.pre.messages, messages[last.node])
        /\ last.result.value = counter[last.node]

\* C8: handle_remote_message(X) appends one entry, the remote mark followed
\* by X, to the end of messages, leaves counter unchanged and returns
\* Ok("Message received").
C8_RemoteMessageIsLogged ==
    last.op = "handle_remote_message" =>
        /\ last.body \in RemoteTexts
        /\ messages[last.node]
             = Append(last.pre.messages, <<"Remote message: ">> \o last.body)
        /\ counter[last.node] = last.pre.counter
        /\ last.result = [status |-> "Ok", value |-> <<"Message received">>]

C8_Witness ==
    /\ last.op = "handle_remote_message"
    /\ last.pre.counter # U32Zero
    /\ Len(last.pre.messages) >= 2

\* C9: the output of get_messages, read back as a JSON array of strings, is
\* the log entry by entry in order, and get_messages changes neither counter
\* nor messages.
C9_MessagesRoundTrip ==
    last.op = "get_messages" =>
        /\ last.result.status = "Ok"
        /\ ParseJsonArray(last.result.value)
             = [ok |-> TRUE, val |-> messages[last.node]]
        /\ AppState(counter[last.node], messages[last.node]) = last.pre

C9_Witness ==
    /\ last.op = "get_messages"
    /\ \E i \in 1..Len(messages[last.node]) :
          /\ Head(messages[last.node][i]) = "Remote message: "
          /\ \E j \in 1..Len(messages[last.node][i]) :
                messages[last.node][i][j] = QUOTE
    /\ \E i \in 1..Len(messages[last.node]) :
          Head(messages[last.node][i]) = "Counter incremented by "

\* C10: every step leaves each log a prefix of what it was extended to, and
\* send_to_node, get_status and get_messages leave it as it was.
C10_LogIsAppendOnly ==
    [][ \A n \in Nodes :
          /\ IsPrefix(messages[n], messages'[n])
          /\ ((last' # last /\ last'.node = n
                 /\ last'.op \in {"send_to_node", "get_status", "get_messages"})
              \/ pc[n] = "awaiting" \/ pc'[n] = "awaiting")
             => messages'[n] = messages[n] ]_vars

C10_Witness ==
    \E n \in Nodes :
        /\ up[n] /\ Len(messages[n]) = 3
        /\ Len(persisted[n].messages) = 2
        /\ messages[n][3] = <<"App initialized!">>
        /\ Head(messages[n][2]) # "App initialized!"
====
